---- MODULE Spec2Model ----
(***************************************************************************)
(* himawaripy: model of src/himawaripy/__main__.py.                        *)
(*                                                                         *)
(* Data representation                                                     *)
(*   datetime     naive wall-clock instant, whole minutes since            *)
(*                1970-01-01 00:00 (every timestamp the program handles is *)
(*                parsed with "%Y-%m-%d %H:%M", so seconds are always 0)   *)
(*   struct_time  record [tm_year, tm_mon, tm_mday, tm_hour, tm_min,       *)
(*                tm_sec]                                                  *)
(*   text         "YYYY-MM-DD HH:MM" is the tuple <<Y, M, D, h, m>> of its *)
(*                numeric fields; None is the empty tuple                  *)
(***************************************************************************)
EXTENDS Integers, Sequences, FiniteSets, TLC

\* ------------------------------------------------------------------ bounds
\* longest snapshot list enumerated exhaustively
MaxLen == 4
\* runs of the program in a row
MaxRuns == 2
\* tiles per side of the grid (the program has 4, 8, 16 and 20)
Level == 2

\* ------------------------------------------------------- calendar (datetime)
None == <<>>

IsLeap(y) == (y % 4 = 0 /\ y % 100 # 0) \/ y % 400 = 0

DaysInMonth(y, m) ==
    IF m = 2 THEN (IF IsLeap(y) THEN 29 ELSE 28)
    ELSE IF m \in {4, 6, 9, 11} THEN 30 ELSE 31

\* days from 1970-01-01 to y-01-01
LeapsBefore(y) == ((y - 1) \div 4) - ((y - 1) \div 100) + ((y - 1) \div 400)
DaysBeforeYear(y) == 365 * (y - 1970) + LeapsBefore(y) - LeapsBefore(1970)

RECURSIVE DaysBeforeMonth(_, _)
DaysBeforeMonth(y, m) ==
    IF m = 1 THEN 0 ELSE DaysBeforeMonth(y, m - 1) + DaysInMonth(y, m - 1)

\* datetime(Y, M, D, h, m): calendar fields to the instant
ToDatetime(Y, M, D, h, m) ==
    ((DaysBeforeYear(Y) + DaysBeforeMonth(Y, M) + (D - 1)) * 24 + h) * 60 + m

YearOfDay(d) ==
    LET y0 == 1970 + d \div 366
    IN  CHOOSE y \in y0 .. (y0 + 1) : DaysBeforeYear(y) <= d /\ d < DaysBeforeYear(y + 1)

MonthOfDay(y, dy) ==
    CHOOSE m \in 1 .. 12 :
        DaysBeforeMonth(y, m) <= dy /\ dy < DaysBeforeMonth(y, m) + DaysInMonth(y, m)

\* datetime.timetuple(): the instant back to calendar fields
timetuple(dt) ==
    LET d  == dt \div 1440
        y  == YearOfDay(d)
        dy == d - DaysBeforeYear(y)
        mo == MonthOfDay(y, dy)
    IN  [tm_year |-> y, tm_mon |-> mo, tm_mday |-> dy - DaysBeforeMonth(y, mo) + 1,
         tm_hour |-> (dt % 1440) \div 60, tm_min |-> dt % 60, tm_sec |-> 0]

\* time.strptime(s, "%Y-%m-%d %H:%M")
strptime(s) ==
    [tm_year |-> s[1], tm_mon |-> s[2], tm_mday |-> s[3],
     tm_hour |-> s[4], tm_min |-> s[5], tm_sec |-> 0]

\* time.strftime("%Y-%m-%d %H:%M", t): the seconds field is not printed
strftime(t) == <<t.tm_year, t.tm_mon, t.tm_mday, t.tm_hour, t.tm_min>>

\* datetime(*t[:6]) and datetime.strptime(s, "%Y-%m-%d %H:%M")
DatetimeOf(t) == ToDatetime(t.tm_year, t.tm_mon, t.tm_mday, t.tm_hour, t.tm_min)
datetime_strptime(s) == ToDatetime(s[1], s[2], s[3], s[4], s[5])

\* strftime("himawari-%Y%m%dT%H%M%S.png", t)
output_file_name(t) ==
    <<t.tm_year, t.tm_mon, t.tm_mday, t.tm_hour, t.tm_min, t.tm_sec>>

\* -------------------------------------------------------------------- state
VARIABLES
    args,            \* argparse namespace: auto_offset, offset, deadline, composite_over
    localtz,         \* the host's time zone: [z, gap]
    page,            \* td[1] texts of the archive listing, in document order
    mainPc,          \* position of main()
    workerPc,        \* position of thread_main()
    exitCode,        \* Running until the process has exited
    requested_time,  \* thread_main local (struct_time)
    closest_match,   \* thread_main local (text or None)
    dl,              \* the running (or last) call of download(): its url, the urlopen
                     \* calls, retry messages and sleeps so far, the attempt whose
                     \* payload was returned (0: none) and the attempt whose
                     \* exception is held in `exception` (0: None)
    netCalls,        \* urlopen calls made so far
    files,           \* himawari-*.png files in output_dir
    oldFiles,        \* the himawari-*.png files that were there when the process started
    bgCalls,         \* calls of set_background made so far
    joinResult,      \* how main_thread.join returned: "none" (not yet), "ended", "timedout"
    runs,            \* the number of this run of the program (1: the first)
    counter,         \* the global counter (mp.Value): its value
    lock,            \* counter.get_lock(): the download_chunk task that holds it, or None
    tpc,             \* position of each download_chunk task
    reg,             \* the value a task read for `counter.value += 1`, until it writes
    out              \* the progress lines printed by download_chunk, in order

\* what no step of one run changes
tiles == <<counter, lock, tpc, reg, out>>
inputs == <<args, localtz, page, oldFiles, runs, tiles>>
io == <<dl, netCalls, files, bgCalls>>
vars == <<args, localtz, page, mainPc, workerPc, exitCode, requested_time, closest_match,
          dl, netCalls, files, oldFiles, bgCalls, joinResult, runs, counter, lock, tpc, reg, out>>

Running == -1
NoGap == -1

\* ------------------------------------------------- calculate_time_offset
\* datetime.now(tzlocal()).strftime("%z"): "+HHMM" / "-HHMM" as <<sign, HH, MM>>
FormatZ(z) ==
    LET a == IF z < 0 THEN -z ELSE z
    IN  <<IF z < 0 THEN -1 ELSE 1, a \div 60, a % 60>>

\* int(s[0:3]): sign and the two hour digits
IntOfHourDigits(s) == s[1] * s[2]

DetectedOffset(tz) == IntOfHourDigits(FormatZ(tz.z))

ClampDetected_lt12(preferred_offset) ==
    IF 11 >= preferred_offset /\ preferred_offset > 10 THEN 10
    ELSE IF 12 > preferred_offset /\ preferred_offset > 11 THEN -12
    ELSE preferred_offset

\* lines 43-48
ClampDetected(preferred_offset) ==
    IF 11 >= preferred_offset /\ preferred_offset > 10 THEN 10
    ELSE IF 12 >= preferred_offset /\ preferred_offset > 11 THEN -12
    ELSE preferred_offset

\* lines 40-48: the preferred_offset that line 51 reads
UsedOffset(auto, preferred_offset, tz) ==
    IF auto THEN ClampDetected(DetectedOffset(tz)) ELSE preferred_offset

himawari_offset == 10

\* The host zone is on utc offset tz.z now; when tz.gap # NoGap its clocks were
\* set forward one hour at wall-clock tz.gap, so that wall-clock times in
\* [tz.gap, tz.gap + 60) do not exist and the offset before that was tz.z - 60.
OffsetBeforeGap(tz) == IF tz.gap = NoGap THEN tz.z ELSE tz.z - 60

\* time.mktime(t) with tm_isdst = -1 (glibc): a wall-clock time inside the gap
\* is read with the offset in force before the gap
mktime(t, tz) ==
    LET wall == DatetimeOf(t)
    IN  IF tz.gap = NoGap \/ wall >= tz.gap + 60
        THEN wall - tz.z
        ELSE wall - OffsetBeforeGap(tz)

\* datetime.fromtimestamp(e): epoch to naive local wall-clock
fromtimestamp(e, tz) ==
    IF tz.gap = NoGap \/ e >= tz.gap - OffsetBeforeGap(tz)
    THEN e + tz.z
    ELSE e + OffsetBeforeGap(tz)

EffectiveOffset_plus(preferred_offset) == preferred_offset + himawari_offset

\* line 51
EffectiveOffset(preferred_offset) == preferred_offset - himawari_offset

\* lines 39-56
calculate_time_offset(latest_date, auto, preferred_offset, tz) ==
    LET offset     == EffectiveOffset(UsedOffset(auto, preferred_offset, tz))
        offset_tmp == fromtimestamp(mktime(latest_date, tz), tz) + offset * 60
    IN  timetuple(offset_tmp)

\* ---------------------------------------------- find_closest_recent_time
AbsDiff_signed(recent_time, requested) == recent_time - requested

\* lines 165-168 and 172-175
AbsDiff(recent_time, requested) ==
    IF recent_time > requested THEN recent_time - requested ELSE requested - recent_time

ideal_match_none(recent_times, requested_time_string) == <<>>

\* line 150: the td texts that contain the requested time string, in document
\* order (both are "YYYY-MM-DD HH:MM", so containment is equality)
ideal_match(recent_times, requested_time_string) ==
    SelectSeq(recent_times, LAMBDA s : s = requested_time_string)

OnSameDiff_current(closest, recent_time_string) == recent_time_string

\* lines 177-179: the value returned when the diff repeats
OnSameDiff(closest, recent_time_string) == closest

OnFarther_current(closest, recent_time_string) == recent_time_string

\* lines 185-187: the value returned when the diff grows
OnFarther(closest, recent_time_string) == closest

\* lines 160-187: the loop from element i on; falling off the end of the loop
\* is the end of the function, whose value is then None
RECURSIVE ScanFrom(_, _, _, _, _)
ScanFrom(recent_times, i, requested, closest, closest_diff) ==
    IF i > Len(recent_times) THEN None
    ELSE LET recent_time_string == recent_times[i]
             diff == AbsDiff(datetime_strptime(recent_time_string), requested)
         IN  IF closest = None
             THEN ScanFrom(recent_times, i + 1, requested, recent_time_string, diff)
             ELSE IF diff = closest_diff
                  THEN OnSameDiff(closest, recent_time_string)
                  ELSE IF diff < closest_diff
                       THEN ScanFrom(recent_times, i + 1, requested, recent_time_string, diff)
                       ELSE OnFarther(closest, recent_time_string)

\* lines 146-187
find_closest_recent_time(recent_times, requested) ==
    LET im == ideal_match(recent_times, strftime(requested))
    IN  IF im # <<>> THEN im[1]
        ELSE ScanFrom(recent_times, 1, DatetimeOf(requested), None, 0)

\* ------------------------------------------------------------ input sets
Base == ToDatetime(2024, 2, 28, 20, 0)
TextOf(dt) == strftime(timetuple(dt))

\* snapshot times around Base, minutes from Base
Deltas == {1860, 10, 5, 3, 1, 0, -2, -4, -10}
Stamps == {TextOf(Base + d) : d \in Deltas}

RECURSIVE SeqsUpTo(_, _)
SeqsUpTo(S, n) ==
    IF n = 0 THEN {<<>>}
    ELSE LET shorter == SeqsUpTo(S, n - 1)
         IN  shorter \cup {Append(q, x) : q \in {r \in shorter : Len(r) = n - 1}, x \in S}

Example_5_3_1_2_4 ==
    <<TextOf(Base + 5), TextOf(Base + 3), TextOf(Base + 1), TextOf(Base - 2), TextOf(Base - 4)>>

SnapshotLists == (SeqsUpTo(Stamps, MaxLen) \ {<<>>}) \cup {Example_5_3_1_2_4}

Targets == {Base, Base + 2}

\* the latest snapshot (first data row of the listing)
LatestTexts ==
    {<<2024, 3, 1, 3, 0>>, <<2024, 3, 10, 2, 30>>, <<2024, 3, 10, 1, 50>>,
     <<2024, 1, 1, 0, 0>>, <<2023, 12, 31, 23, 50>>, <<2024, 2, 28, 20, 0>>}

\* utc offsets a host can report, -12:00 .. +14:00 in quarter hours, and
\* whether its clocks went forward at 02:00 on 2024-03-10
ZoneOffsets == {15 * q : q \in -48 .. 56}
GapStarts == {NoGap, ToDatetime(2024, 3, 10, 2, 0)}
LocalZones == [z : ZoneOffsets, gap : GapStarts]

\* what parse_args lets through (lines 83-88, 105-106): --auto-offset and
\* --offset exclude each other, so with auto_offset the offset is its default
ResolverArgs ==
    {[auto_offset |-> FALSE, offset |-> o, deadline |-> 0, save_battery |-> FALSE,
      composite_over |-> "none"] : o \in -12 .. 10}
    \cup {[auto_offset |-> TRUE, offset |-> 10, deadline |-> 0, save_battery |-> FALSE,
           composite_over |-> "none"]}

DefaultArgs ==
    [auto_offset |-> FALSE, offset |-> 10, deadline |-> 0, save_battery |-> FALSE,
     composite_over |-> "none"]
\* line 128: a call of download(url) begins
StartDownload(url) ==
    [url |-> url, attempts |-> 0, msgs |-> 0, sleeps |-> 0, result |-> 0, exception |-> 0]
NoDownload == StartDownload("none")
UtcZone == [z |-> 0, gap |-> NoGap]

Exited == mainPc = "exited"

\* ------------------------------------------------------- download_chunk
\* one task per tile (x, y) of the level x level grid
Tasks == (0 .. Level - 1) \X (0 .. Level - 1)

\* line 191: counter = mp.Value("i", 0); no task holds its lock
TilesAt(pc) ==
    /\ counter = 0
    /\ lock = None
    /\ tpc = [t \in Tasks |-> pc]
    /\ reg = [t \in Tasks |-> 0]
    /\ out = <<>>

pipeline == <<args, localtz, page, oldFiles, runs, mainPc, workerPc, exitCode,
              requested_time, closest_match, dl, netCalls, files, bgCalls, joinResult>>

\* line 66: download(url) returns the tile
TileDownloaded(t) ==
    /\ tpc[t] = "download"
    /\ tpc' = [tpc EXCEPT ![t] = "lock"]
    /\ UNCHANGED <<pipeline, counter, lock, reg, out>>

\* line 66: download(url) raises after its 3 attempts
TileFailed(t) ==
    /\ tpc[t] = "download"
    /\ tpc' = [tpc EXCEPT ![t] = "raised"]
    /\ UNCHANGED <<pipeline, counter, lock, reg, out>>

LockFree_always(holder) == TRUE

\* line 68: the lock can be taken when no task holds it
LockFree(holder) == holder = None

\* line 68: with counter.get_lock()
Acquire(t) ==
    /\ tpc[t] = "lock"
    /\ LockFree(lock)
    /\ lock' = t
    /\ tpc' = [tpc EXCEPT ![t] = "read"]
    /\ UNCHANGED <<pipeline, counter, reg, out>>

\* line 69: counter.value += 1, the read
ReadCounter(t) ==
    /\ tpc[t] = "read"
    /\ reg' = [reg EXCEPT ![t] = counter]
    /\ tpc' = [tpc EXCEPT ![t] = "write"]
    /\ UNCHANGED <<pipeline, counter, lock, out>>

\* line 69: counter.value += 1, the write
WriteCounter(t) ==
    /\ tpc[t] = "write"
    /\ counter' = reg[t] + 1
    /\ reg' = [reg EXCEPT ![t] = 0]
    /\ tpc' = [tpc EXCEPT ![t] = "report"]
    /\ UNCHANGED <<pipeline, lock, out>>

\* lines 70-74: the progress line, the release of the lock and the return
Report(t) ==
    /\ tpc[t] = "report"
    /\ out' = Append(out, IF counter = Level * Level
                          THEN [completed |-> TRUE, value |-> Level * Level]
                          ELSE [completed |-> FALSE, value |-> counter])
    /\ lock' = IF lock = t THEN None ELSE lock
    /\ tpc' = [tpc EXCEPT ![t] = "done"]
    /\ UNCHANGED <<pipeline, counter, reg>>

download_chunk(t) ==
    \/ TileDownloaded(t) \/ TileFailed(t) \/ Acquire(t)
    \/ ReadCounter(t) \/ WriteCounter(t) \/ Report(t)

InitTiles ==
    /\ args = DefaultArgs
    /\ localtz = UtcZone
    /\ page = <<<<2024, 3, 1, 3, 0>>>>
    /\ oldFiles = {}
    /\ files = {}
    /\ requested_time = strptime(page[1])
    /\ closest_match = None
    /\ mainPc = "join"
    /\ workerPc = "tiles"
    /\ exitCode = Running
    /\ dl = NoDownload
    /\ netCalls = 0
    /\ bgCalls = 0
    /\ joinResult = "none"
    /\ runs = 1
    /\ TilesAt("download")

SpecTiles == InitTiles /\ [][\E t \in Tasks : download_chunk(t)]_vars

\* ------------------------------------------------------ thread_main steps
\* lines 197-203
Resolve ==
    /\ workerPc = "resolve"
    /\ exitCode = Running
    /\ LET latest == strptime(page[1])
       IN  requested_time' = calculate_time_offset(latest, args.auto_offset, args.offset, localtz)
    /\ workerPc' = "match"
    /\ UNCHANGED <<inputs, joinResult, io, mainPc, exitCode, closest_match>>

\* line 205
Match ==
    /\ workerPc = "match"
    /\ exitCode = Running
    /\ closest_match' = find_closest_recent_time(page, requested_time)
    /\ workerPc' = "lookup"
    /\ UNCHANGED <<inputs, joinResult, io, mainPc, exitCode, requested_time>>

\* thread_main has returned or was ended by an exception
WorkerEnded == workerPc \in {"done", "sysexit", "raised"}
WorkerAlive == workerPc # "idle" /\ ~WorkerEnded

AfterDownload_delete(pc) == IF pc = "listing" THEN "delete" ELSE "composite"

\* where thread_main goes on after its call of download() has returned
AfterDownload(pc) == IF pc = "listing" THEN "resolve" ELSE "composite"

MaxAttempts_four == 3 + 1

\* line 130: range(1, 4)
MaxAttempts == 3

\* lines 132-133: attempt i succeeds and its response is returned
AfterSuccess(d) == [d EXCEPT !.attempts = @ + 1, !.result = d.attempts + 1]

AfterFailure_silent(d) ==
    [d EXCEPT !.attempts = @ + 1, !.exception = d.attempts + 1, !.sleeps = @ + 1]

\* lines 134-137: attempt i fails; its exception is kept, the retry message is
\* printed and the call sleeps one second
AfterFailure(d) ==
    [d EXCEPT !.attempts = @ + 1, !.exception = d.attempts + 1,
              !.msgs = @ + 1, !.sleeps = @ + 1]

\* lines 130-133: an attempt that succeeds; download() returns the payload
DownloadOk ==
    /\ workerPc \in {"listing", "image"}
    /\ exitCode = Running
    /\ dl.attempts < MaxAttempts
    /\ netCalls' = netCalls + 1
    /\ dl' = AfterSuccess(dl)
    /\ workerPc' = AfterDownload(workerPc)
    /\ UNCHANGED <<inputs, joinResult, mainPc, exitCode, requested_time, closest_match, files, bgCalls>>

\* lines 130-138: an attempt that fails, its message and its sleep
DownloadFail ==
    /\ workerPc \in {"listing", "image"}
    /\ exitCode = Running
    /\ dl.attempts < MaxAttempts
    /\ netCalls' = netCalls + 1
    /\ dl' = AfterFailure(dl)
    /\ UNCHANGED <<inputs, joinResult, mainPc, workerPc, exitCode, requested_time, closest_match,
                   files, bgCalls>>

\* lines 140-141: every attempt failed, the exception held is raised and
\* ends thread_main
DownloadRaise ==
    /\ workerPc \in {"listing", "image"}
    /\ exitCode = Running
    /\ dl.attempts = MaxAttempts
    /\ dl.exception # 0
    /\ workerPc' = "raised"
    /\ UNCHANGED <<inputs, joinResult, io, mainPc, exitCode, requested_time, closest_match>>

\* lines 208-212: the row of the match and its link; without a row sys.exit
\* ends thread_main
Lookup ==
    /\ workerPc = "lookup"
    /\ exitCode = Running
    /\ workerPc' = IF \E i \in 1 .. Len(page) : page[i] = closest_match
                   THEN "composite_open" ELSE "sysexit"
    /\ UNCHANGED <<inputs, joinResult, io, mainPc, exitCode, requested_time, closest_match>>

CompositeReadable_always(composite_over) == TRUE

\* lines 214-219: no image to composite over is asked for, or Image.open succeeds
CompositeReadable(composite_over) == composite_over # "unreadable"

\* lines 214-224: open the image to composite over, if one is given, and
\* start the download of the satellite image
CompositeOpen ==
    /\ workerPc = "composite_open"
    /\ exitCode = Running
    /\ IF CompositeReadable(args.composite_over)
       THEN workerPc' = "image" /\ dl' = StartDownload("image")
       ELSE workerPc' = "sysexit" /\ UNCHANGED dl
    /\ UNCHANGED <<inputs, joinResult, mainPc, exitCode, requested_time, closest_match, netCalls,
                   files, bgCalls>>

\* lines 224-252: open the downloaded image and composite it
Composite ==
    /\ workerPc = "composite"
    /\ exitCode = Running
    /\ workerPc' = "delete"
    /\ UNCHANGED <<inputs, joinResult, io, mainPc, exitCode, requested_time, closest_match>>

RemainingAfterDelete_none(fs) == fs

\* lines 254-255: every file that matches himawari-*.png is removed
RemainingAfterDelete(fs) == {}

\* lines 254-255
DeleteOld ==
    /\ workerPc = "delete"
    /\ exitCode = Running
    /\ files' = RemainingAfterDelete(files)
    /\ workerPc' = "save"
    /\ UNCHANGED <<inputs, joinResult, mainPc, exitCode, requested_time, closest_match, dl, netCalls,
                   bgCalls>>

\* lines 257-260, the file is written
SaveOk ==
    /\ workerPc = "save"
    /\ exitCode = Running
    /\ files' = files \cup {output_file_name(requested_time)}
    /\ workerPc' = "set_background"
    /\ UNCHANGED <<inputs, joinResult, mainPc, exitCode, requested_time, closest_match, dl, netCalls,
                   bgCalls>>

\* lines 257-260, makedirs or save raises (no permission, disk full)
SaveFail ==
    /\ workerPc = "save"
    /\ exitCode = Running
    /\ workerPc' = "raised"
    /\ UNCHANGED <<inputs, joinResult, io, mainPc, exitCode, requested_time, closest_match>>

\* utils.set_background(file_path): whether the desktop environment is supported
set_background_results == BOOLEAN

\* lines 262-263
SetBackground ==
    /\ workerPc = "set_background"
    /\ exitCode = Running
    /\ bgCalls' = bgCalls + 1
    /\ \E ok \in set_background_results :
          workerPc' = IF ok THEN "done" ELSE "sysexit"
    /\ UNCHANGED <<inputs, joinResult, mainPc, exitCode, requested_time, closest_match, dl, netCalls,
                   files>>

\* ------------------------------------------------------------ main steps
OffsetValid_upper(offset) == offset <= 10

\* line 105
OffsetValid(offset) == -12 <= offset /\ offset <= 10

\* line 108
DeadlineValid(deadline) == deadline >= 0

\* sys.exit(message): the message goes to stderr and the exit status is 1
ExitMessage == 1
ExitSuccess == 0

Exit(code) ==
    /\ mainPc' = "exited"
    /\ exitCode' = code

\* lines 105-109
ParseArgsReject ==
    /\ mainPc = "parse_args"
    /\ ~(OffsetValid(args.offset) /\ DeadlineValid(args.deadline))
    /\ Exit(ExitMessage)
    /\ UNCHANGED <<inputs, joinResult, io, workerPc, requested_time, closest_match>>

\* lines 103-111
ParseArgsOk ==
    /\ mainPc = "parse_args"
    /\ OffsetValid(args.offset)
    /\ DeadlineValid(args.deadline)
    /\ mainPc' = "battery"
    /\ UNCHANGED <<inputs, joinResult, io, workerPc, exitCode, requested_time, closest_match>>

\* lines 271-272, is_discharging() lines 114-124
BatteryCheck ==
    /\ mainPc = "battery"
    /\ \E discharging \in BOOLEAN :
          IF args.save_battery /\ discharging
          THEN Exit(ExitMessage)
          ELSE mainPc' = "start" /\ UNCHANGED exitCode
    /\ UNCHANGED <<inputs, joinResult, io, workerPc, requested_time, closest_match>>

\* lines 274-275 and 191-194: the thread starts and calls download()
StartThread ==
    /\ mainPc = "start"
    /\ mainPc' = "join"
    /\ workerPc' = "listing"
    /\ dl' = StartDownload("listing")
    /\ UNCHANGED <<inputs, joinResult, exitCode, requested_time, closest_match, netCalls, files, bgCalls>>

Supervised_always(deadline) == TRUE

\* lines 276, 278: `args.deadline` as a truth value; 0 disables the timeout
Supervised(deadline) == deadline # 0

\* line 276: join returns because the thread has ended
JoinEnded ==
    /\ mainPc = "join"
    /\ WorkerEnded
    /\ mainPc' = "check"
    /\ joinResult' = "ended"
    /\ UNCHANGED <<inputs, io, workerPc, exitCode, requested_time, closest_match>>

\* line 276: join returns because deadline * 60 seconds have passed
JoinTimedOut ==
    /\ mainPc = "join"
    /\ Supervised(args.deadline)
    /\ WorkerAlive
    /\ mainPc' = "check"
    /\ joinResult' = "timedout"
    /\ UNCHANGED <<inputs, io, workerPc, exitCode, requested_time, closest_match>>

\* lines 278-279
Timeout ==
    /\ mainPc = "check"
    /\ Supervised(args.deadline)
    /\ WorkerAlive
    /\ Exit(ExitMessage)
    /\ UNCHANGED <<inputs, joinResult, io, workerPc, requested_time, closest_match>>

\* lines 278-282
ExitZero ==
    /\ mainPc = "check"
    /\ ~(Supervised(args.deadline) /\ WorkerAlive)
    /\ Exit(ExitSuccess)
    /\ UNCHANGED <<inputs, joinResult, io, workerPc, requested_time, closest_match>>

\* ------------------------------------------------------------ the process
OffsetArgs == {-13, -12, 3, 9, 10, 11}
DeadlineArgs == {-1, 0, 6}
CompositeArgs == {"none", "readable", "unreadable"}

CommandLines ==
    {[auto_offset |-> FALSE, offset |-> o, deadline |-> d, save_battery |-> b,
      composite_over |-> c] :
        o \in OffsetArgs, d \in DeadlineArgs, b \in BOOLEAN, c \in CompositeArgs}
    \cup {[auto_offset |-> TRUE, offset |-> 10, deadline |-> d, save_battery |-> b,
           composite_over |-> c] :
        d \in DeadlineArgs, b \in BOOLEAN, c \in CompositeArgs}

HostZones == [z : {0, 780}, gap : GapStarts]

\* archive listings, most recent first
ListingPages ==
    {<<<<2024, 3, 1, 3, 0>>, <<2024, 3, 1, 2, 50>>, <<2024, 2, 29, 20, 0>>,
       <<2024, 2, 28, 20, 10>>, <<2024, 2, 28, 19, 50>>>>,
     <<<<2024, 3, 1, 3, 0>>, <<2024, 3, 1, 2, 50>>, <<2024, 3, 1, 2, 40>>>>,
     <<<<2024, 3, 10, 2, 30>>, <<2024, 3, 10, 2, 20>>, <<2024, 3, 9, 19, 30>>>>}

OldFile1 == <<2024, 2, 28, 19, 50, 0>>
OldFile2 == <<2024, 3, 1, 3, 0, 0>>
OutputDirs == {{}, {OldFile1}, {OldFile1, OldFile2}}

Init ==
    /\ args \in CommandLines
    /\ localtz \in HostZones
    /\ page \in ListingPages
    /\ oldFiles \in OutputDirs
    /\ files = oldFiles
    /\ requested_time = strptime(page[1])
    /\ closest_match = None
    /\ mainPc = "parse_args"
    /\ workerPc = "idle"
    /\ exitCode = Running
    /\ dl = NoDownload
    /\ netCalls = 0
    /\ bgCalls = 0
    /\ joinResult = "none"
    /\ runs = 1
    /\ TilesAt("unused")

Worker ==
    \/ DownloadOk \/ DownloadFail \/ DownloadRaise
    \/ Resolve \/ Match \/ Lookup \/ CompositeOpen \/ Composite
    \/ DeleteOld \/ SaveOk \/ SaveFail \/ SetBackground

Main ==
    \/ ParseArgsReject \/ ParseArgsOk \/ BatteryCheck \/ StartThread
    \/ JoinEnded \/ JoinTimedOut \/ Timeout \/ ExitZero

Next == Main \/ Worker

Spec == Init /\ [][Next]_vars

\* ------------------------------------------------- runs in a row
\* lines 285-286: the program is run again with the same command line on the
\* same host, once the process of the run before has exited; the output
\* directory is as that run left it
Rerun ==
    /\ Exited
    /\ runs < MaxRuns
    /\ runs' = runs + 1
    /\ page' \in ListingPages
    /\ oldFiles' = files
    /\ requested_time' = strptime(page'[1])
    /\ closest_match' = None
    /\ mainPc' = "parse_args"
    /\ workerPc' = "idle"
    /\ exitCode' = Running
    /\ dl' = NoDownload
    /\ netCalls' = 0
    /\ bgCalls' = 0
    /\ joinResult' = "none"
    /\ UNCHANGED <<args, localtz, files, tiles>>

RunArgs ==
    {[auto_offset |-> FALSE, offset |-> o, deadline |-> d, save_battery |-> FALSE,
      composite_over |-> c] :
        o \in {3, 10, 11}, d \in {0, 6}, c \in {"none", "unreadable"}}

InitRuns ==
    /\ args \in RunArgs
    /\ localtz = UtcZone
    /\ page \in ListingPages
    /\ oldFiles \in OutputDirs
    /\ files = oldFiles
    /\ requested_time = strptime(page[1])
    /\ closest_match = None
    /\ mainPc = "parse_args"
    /\ workerPc = "idle"
    /\ exitCode = Running
    /\ dl = NoDownload
    /\ netCalls = 0
    /\ bgCalls = 0
    /\ joinResult = "none"
    /\ runs = 1
    /\ TilesAt("unused")

SpecRuns == InitRuns /\ [][Next \/ Rerun]_vars

\* ----------------------------------------------- the matcher on its own
InitMatch ==
    /\ args = DefaultArgs
    /\ localtz = UtcZone
    /\ page \in SnapshotLists
    /\ requested_time \in {timetuple(t) : t \in Targets}
    /\ closest_match = None
    /\ mainPc = "join"
    /\ workerPc = "match"
    /\ exitCode = Running
    /\ dl = NoDownload
    /\ netCalls = 1
    /\ files = {}
    /\ oldFiles = {}
    /\ bgCalls = 0
    /\ joinResult = "none"
    /\ runs = 1
    /\ TilesAt("unused")

SpecMatch == InitMatch /\ [][Match]_vars

\* ------------------------------------- calculate_time_offset on its own
InitOffset ==
    /\ args \in ResolverArgs
    /\ localtz \in LocalZones
    /\ page \in {<<s>> : s \in LatestTexts}
    /\ requested_time = strptime(page[1])
    /\ closest_match = None
    /\ mainPc = "join"
    /\ workerPc = "resolve"
    /\ exitCode = Running
    /\ dl = NoDownload
    /\ netCalls = 1
    /\ files = {}
    /\ oldFiles = {}
    /\ bgCalls = 0
    /\ joinResult = "none"
    /\ runs = 1
    /\ TilesAt("unused")

SpecOffset == InitOffset /\ [][Resolve]_vars

\* ================================================================ claims
OutputFile == output_file_name(requested_time)

\* C1: the process exits with code 0 only when thread_main ran to completion
\* (image saved, wallpaper set); every failed run ends with a non-zero code.
C1_ExitZeroOnlyOnSuccess ==
    exitCode = ExitSuccess =>
        /\ workerPc = "done"
        /\ files = {OutputFile}
        /\ bgCalls = 1

\* C2: when the process has exited, either the pipeline succeeded and the
\* output directory holds exactly the one new file, or the run failed and the
\* output directory is as it was before the run.
C2_NoPartialOutput ==
    Exited =>
        IF workerPc = "done"
        THEN files = {OutputFile}
        ELSE files = oldFiles

\* C9: an offset outside [-12, 10] or a negative deadline makes the process
\* exit with a non-zero status in parse_args: the worker thread is never
\* started and no download call is made.
C9_InvalidArgsRejected ==
    (args.offset < -12 \/ args.offset > 10 \/ args.deadline < 0) =>
        /\ workerPc = "idle"
        /\ netCalls = 0
        /\ mainPc \in {"parse_args", "exited"}
        /\ Exited => exitCode \notin {Running, ExitSuccess}

C9_Witness ==
    /\ Exited
    /\ args.offset = -13
    /\ args.deadline = 6
    /\ exitCode = ExitMessage
    /\ workerPc = "idle"
    /\ netCalls = 0

Matched == workerPc = "lookup"
Resolved == workerPc = "match"

\* distance in minutes between a snapshot text and the target
Distance(s) ==
    LET a == datetime_strptime(s)
        b == DatetimeOf(requested_time)
    IN  IF a >= b THEN a - b ELSE b - a
Diff(i) == Distance(page[i])
HasExact == \E i \in 1 .. Len(page) : page[i] = strftime(requested_time)
Elements == {page[i] : i \in 1 .. Len(page)}

\* first position whose distance is not smaller than its predecessor's (0: none)
NotCloserAt(i) == Diff(i) >= Diff(i - 1)
StopIndex ==
    IF \E i \in 2 .. Len(page) : NotCloserAt(i)
    THEN CHOOSE i \in 2 .. Len(page) : NotCloserAt(i) /\ \A j \in 2 .. (i - 1) : ~NotCloserAt(j)
    ELSE 0

\* first position whose distance is larger than its predecessor's (0: none)
FartherAt(i) == Diff(i) > Diff(i - 1)
FirstFarther ==
    IF \E i \in 2 .. Len(page) : FartherAt(i)
    THEN CHOOSE i \in 2 .. Len(page) : FartherAt(i) /\ \A j \in 2 .. (i - 1) : ~FartherAt(j)
    ELSE 0

\* C3: a scan that ends without an early return (no exact match, every
\* candidate strictly closer than the one before) returns the last element,
\* a singleton list returns its element, and the result of a non-empty list
\* is always one of its elements.
C3_ExhaustedScanReturnsLast ==
    Matched =>
        /\ (~HasExact /\ StopIndex = 0) => closest_match = page[Len(page)]
        /\ closest_match \in Elements

\* C4: when the scan stops on a candidate as far from the target as the one
\* before it, the result is the one before it; for target 2024-02-28 20:00 and
\* [2024-03-01 03:00, 2024-02-28 20:10, 2024-02-28 19:50] it is 2024-02-28 20:10.
TieExample == <<<<2024, 3, 1, 3, 0>>, <<2024, 2, 28, 20, 10>>, <<2024, 2, 28, 19, 50>>>>
TieTarget == strptime(<<2024, 2, 28, 20, 0>>)

C4_TieReturnsPrevious ==
    Matched =>
        /\ (~HasExact /\ StopIndex # 0 /\ Diff(StopIndex) = Diff(StopIndex - 1))
              => closest_match = page[StopIndex - 1]
        /\ (page = TieExample /\ requested_time = TieTarget)
              => closest_match = <<2024, 2, 28, 20, 10>>

C4_Witness ==
    /\ Matched
    /\ page = TieExample
    /\ requested_time = TieTarget
    /\ Diff(3) = Diff(2)
    /\ closest_match = <<2024, 2, 28, 20, 10>>

\* C5 as stated: with no exact match the result is the first candidate whose
\* successor is farther from the target.
C5_FirstFartherSuccessor ==
    (Matched /\ ~HasExact /\ FirstFarther # 0) => closest_match = page[FirstFarther - 1]

\* C5 amended: with no exact match the result is the first candidate whose
\* successor is not closer to the target (farther or equally far); distances
\* [5,3,1,2,4] give the candidate at distance 1.
C5_FirstNotCloserSuccessor ==
    Matched =>
        /\ (~HasExact /\ StopIndex # 0) => closest_match = page[StopIndex - 1]
        /\ (page = Example_5_3_1_2_4 /\ DatetimeOf(requested_time) = Base)
              => closest_match = TextOf(Base + 1)

C5_Witness ==
    /\ Matched
    /\ page = Example_5_3_1_2_4
    /\ DatetimeOf(requested_time) = Base
    /\ <<Diff(1), Diff(2), Diff(3), Diff(4), Diff(5)>> = <<5, 3, 1, 2, 4>>
    /\ closest_match = TextOf(Base + 1)

\* C6: a list that contains the target returns the target, wherever it stands.
C6_ExactMatchWins ==
    (Matched /\ HasExact) => closest_match = strftime(requested_time)

C6_Witness ==
    /\ Matched
    /\ Len(page) = 3
    /\ page[3] = strftime(requested_time)
    /\ Diff(1) = Diff(2)
    /\ closest_match = page[3]

Latest == datetime_strptime(page[1])
Used == UsedOffset(args.auto_offset, args.offset, localtz)

\* C7: in auto-detect mode the offset used after detection and clamping is
\* within [-12, 10] for every utc offset the host can report.
C7_AutoOffsetInDomain ==
    (Resolved /\ args.auto_offset) => Used \in -12 .. 10

\* C8 as stated: +10:30 is used as 10, +11:30 as -12, and a detected offset
\* that is at most 10 and greater than -12 is used unchanged.
C8_ClampMapping ==
    (Resolved /\ args.auto_offset) =>
        /\ localtz.z = 630 => Used = 10
        /\ localtz.z = 690 => Used = -12
        /\ (DetectedOffset(localtz) <= 10 /\ DetectedOffset(localtz) > -12)
              => Used = DetectedOffset(localtz)

\* C8 amended: +10:30 is used as 10, +11:30 is used as 10 as well (it is
\* +12:00 .. +12:59 that is used as -12), and a detected offset whose hour
\* digits are at most 10 and greater than -12 is used with those digits unchanged.
C8_ClampMappingByHourDigits ==
    (Resolved /\ args.auto_offset) =>
        /\ localtz.z = 630 => Used = 10
        /\ localtz.z = 690 => Used = 10
        /\ localtz.z \in 720 .. 779 => Used = -12
        /\ (DetectedOffset(localtz) <= 10 /\ DetectedOffset(localtz) > -12)
              => Used = DetectedOffset(localtz)
        /\ localtz.gap = NoGap => DatetimeOf(requested_time) = Latest + (Used - 10) * 60

C8_Witness ==
    /\ Resolved
    /\ args.auto_offset
    /\ localtz.z = 690
    /\ localtz.gap = NoGap
    /\ DatetimeOf(requested_time) = Latest

\* C10: without auto-detect the result is latest + (requestedOffset - 10)
\* hours, a function of these two inputs alone, never later than latest and
\* equal to it exactly when the offset is 10.
C10_ResultIsLatestPlusOffset ==
    (Resolved /\ ~args.auto_offset) =>
        /\ DatetimeOf(requested_time) = Latest + (args.offset - 10) * 60
        /\ DatetimeOf(requested_time) <= Latest
        /\ (DatetimeOf(requested_time) = Latest) <=> (args.offset = 10)

\* C11 as stated: latest 2024-03-01 03:00 and requested offset 3 without
\* auto-detect give the effective offset -7 and the target 2024-02-28 20:00.
C11_ScenarioTargetFeb28 ==
    (Resolved /\ ~args.auto_offset /\ args.offset = 3 /\ page[1] = <<2024, 3, 1, 3, 0>>) =>
        /\ DatetimeOf(requested_time) - Latest = (-7) * 60
        /\ strftime(requested_time) = <<2024, 2, 28, 20, 0>>

\* C11 amended: latest 2024-03-01 03:00 and requested offset 3 without
\* auto-detect give the effective offset -7 and the target 2024-02-29 20:00
\* (2024 is a leap year).
C11_ScenarioTargetFeb29 ==
    (Resolved /\ ~args.auto_offset /\ args.offset = 3 /\ page[1] = <<2024, 3, 1, 3, 0>>) =>
        /\ DatetimeOf(requested_time) - Latest = (-7) * 60
        /\ strftime(requested_time) = <<2024, 2, 29, 20, 0>>
        /\ requested_time.tm_sec = 0

C11_Witness ==
    /\ Resolved
    /\ ~args.auto_offset
    /\ args.offset = 3
    /\ page[1] = <<2024, 3, 1, 3, 0>>
    /\ strftime(requested_time) = <<2024, 2, 29, 20, 0>>

\* a call of download() has returned a payload / has ended by raising
Returned == dl.result # 0
DownloadRaised == workerPc = "raised" /\ dl.result = 0

\* C12: a download whose first k attempts fail and whose next attempt
\* succeeds, k in {0, 1, 2}, returns the payload of that attempt and has
\* printed exactly k retry messages (2 after failing twice).
C12_RetriesThenPayload ==
    Returned =>
        /\ dl.exception \in 0 .. 2
        /\ dl.result = dl.exception + 1
        /\ dl.msgs = dl.exception
        /\ dl.exception = 2 => dl.msgs = 2

C12_Witness ==
    /\ workerPc = "composite"
    /\ dl.url = "image"
    /\ dl.exception = 2
    /\ dl.result = 3
    /\ dl.msgs = 2

\* C13: download makes at most 3 attempts for one url; when all 3 fail it
\* returns nothing and raises the exception of the third attempt, and
\* thread_main ends there: nothing is deleted or saved, set_background is not
\* called.
C13_ThreeAttemptsThenAbort ==
    /\ dl.attempts <= 3
    /\ (dl.attempts = 3 /\ dl.result = 0) =>
          /\ workerPc \in {dl.url, "raised"}
          /\ dl.exception = 3
          /\ files = oldFiles
          /\ bgCalls = 0
    /\ DownloadRaised => (dl.attempts = 3 /\ dl.exception = 3)

C13_Witness ==
    /\ DownloadRaised
    /\ dl.url = "image"
    /\ dl.attempts = 3
    /\ dl.exception = 3
    /\ files = oldFiles
    /\ oldFiles # {}
    /\ Exited

\* C16: one call of download sleeps at most 2 times, only between a failed
\* attempt and the retry that follows it, and prints as many retry messages
\* as it performs retries.
C16_SleepsOnlyBeforeRetries ==
    (Returned \/ DownloadRaised) =>
        /\ dl.sleeps <= 2
        /\ dl.sleeps = dl.attempts - 1
        /\ dl.msgs = dl.attempts - 1

\* C14 as stated: with a deadline d > 0, a worker still running when d
\* minutes have passed makes the process exit with Timeout; a worker that
\* finished first never does; with deadline 0 the process never reports
\* Timeout and exits only after the worker has ended.
C14_DeadlineSupervision ==
    (Exited /\ joinResult # "none") =>
        /\ joinResult = "timedout" => exitCode = ExitMessage
        /\ joinResult = "ended" => exitCode = ExitSuccess
        /\ args.deadline = 0 => (exitCode = ExitSuccess /\ WorkerEnded)

\* C14 amended: with a deadline d > 0, a worker still running when d minutes
\* have passed and still running when main tests is_alive() right after makes
\* the process exit with Timeout, without waiting for it (a worker that ends
\* between the two makes the process exit with 0); a worker that finished
\* before the deadline never gives Timeout; with deadline 0 join never times
\* out, the process never reports Timeout and exits only after the worker
\* has ended.
C14_DeadlineSupervisionAtCheck ==
    /\ (Exited /\ joinResult # "none") =>
          /\ joinResult = "timedout" =>
                IF WorkerAlive THEN exitCode = ExitMessage ELSE exitCode = ExitSuccess
          /\ joinResult = "ended" => (exitCode = ExitSuccess /\ WorkerEnded)
          /\ args.deadline = 0 => (joinResult = "ended" /\ exitCode = ExitSuccess /\ WorkerEnded)
    /\ joinResult = "timedout" => args.deadline > 0
    /\ mainPc = "check" => ENABLED (Timeout \/ ExitZero)

C14_Witness ==
    /\ Exited
    /\ joinResult = "timedout"
    /\ args.deadline = 6
    /\ workerPc = "image"
    /\ exitCode = ExitMessage

\* C15: after a successful run, and after any runs in a row, the output
\* directory holds exactly one himawari-*.png, the file of the latest
\* successful run named after its target time, however many there were before.
C15_SingleLiveFile ==
    (Exited /\ workerPc = "done") =>
        /\ files = {OutputFile}
        /\ Cardinality(files) = 1

C15_Witness ==
    /\ runs = 2
    /\ Exited
    /\ workerPc = "done"
    /\ Cardinality(oldFiles) = 1
    /\ oldFiles # files
    /\ files = {OutputFile}

AllTilesDone == \A t \in Tasks : tpc[t] = "done"
Incremented == {t \in Tasks : tpc[t] \in {"report", "done"}}

\* C17: whatever the interleaving of the level * level download_chunk tasks,
\* no increment is lost, the progress lines report 1, 2, ... each once and in
\* increasing order, and when all tasks succeeded the 'completed.' line is
\* printed exactly once, last, with the counter at level * level.
C17_CounterAndProgress ==
    /\ counter = Cardinality(Incremented)
    /\ \A i \in 1 .. Len(out) :
          out[i] = IF i = Level * Level
                   THEN [completed |-> TRUE, value |-> Level * Level]
                   ELSE [completed |-> FALSE, value |-> i]
    /\ Len(out) <= Level * Level
    /\ AllTilesDone => (counter = Level * Level /\ Len(out) = Level * Level)

C17_Witness ==
    /\ AllTilesDone
    /\ counter = Level * Level
    /\ Len(out) = Level * Level
    /\ out[Len(out)].completed
    /\ ~out[1].completed

\* thread_main was ended by sys.exit at line 219
CompositeAbort ==
    /\ workerPc = "sysexit"
    /\ args.composite_over = "unreadable"
    /\ closest_match \in Elements
PastCompositeOpen ==
    workerPc \in {"image", "composite", "delete", "save", "set_background", "done"}

\* C18 as stated: when the image to composite over cannot be opened the run
\* is aborted before any download call (listing page or satellite image) has
\* been issued; without a composite path the check is not performed.
C18_AbortBeforeAnyDownload ==
    /\ CompositeAbort => netCalls = 0
    /\ args.composite_over = "unreadable" => ~PastCompositeOpen
    /\ (args.composite_over = "none" /\ workerPc = "sysexit") =>
          (closest_match \notin Elements \/ bgCalls = 1)

\* C18 amended: when the image to composite over cannot be opened the run is
\* aborted after the listing page was downloaded and the snapshot chosen, and
\* before the download of the satellite image: no call for the satellite
\* image has been issued; without a composite path the check is not performed.
C18_AbortBeforeImageDownload ==
    /\ CompositeAbort =>
          /\ dl.url = "listing"
          /\ dl.result # 0
          /\ netCalls = dl.attempts
          /\ netCalls >= 1
          /\ files = oldFiles
          /\ bgCalls = 0
    /\ args.composite_over = "unreadable" => (~PastCompositeOpen /\ dl.url # "image")
    /\ (args.composite_over = "none" /\ workerPc = "sysexit") =>
          (closest_match \notin Elements \/ bgCalls = 1)

C18_Witness ==
    /\ CompositeAbort
    /\ Exited
    /\ dl.url = "listing"
    /\ netCalls = 2
    /\ oldFiles # {}
    /\ files = oldFiles

StrictlyDecreasing ==
    \A i \in 2 .. Len(page) : datetime_strptime(page[i]) < datetime_strptime(page[i - 1])

\* C19: for a list whose timestamps strictly decrease and a target for which
\* the function stops by an early return, the result is at the minimum
\* distance from the target over the whole list, and of two snapshots equally
\* near it is the more recent.
C19_EarlyReturnIsNearest ==
    (Matched /\ StrictlyDecreasing /\ (HasExact \/ StopIndex # 0)) =>
        /\ closest_match \in Elements
        /\ \A j \in 1 .. Len(page) :
              /\ Distance(closest_match) <= Diff(j)
              /\ Diff(j) = Distance(closest_match)
                    => datetime_strptime(page[j]) <= datetime_strptime(closest_match)

C19_Witness ==
    /\ Matched
    /\ StrictlyDecreasing
    /\ Len(page) = 4
    /\ ~HasExact
    /\ StopIndex = 4
    /\ Diff(4) = Diff(3)
    /\ closest_match = page[3]

ImageDownloaded == dl.url = "image" /\ dl.result # 0

\* C20: the old himawari-*.png files are deleted only after the listing page
\* and the satellite image were downloaded and the compositing is done;
\* set_background is called at most once in a run, after the new file was
\* saved; a run that fails in the listing download, the snapshot lookup, the
\* opening of the composite base or the image download leaves the output
\* directory as it was and never calls set_background.
C20_SideEffectOrder ==
    /\ files # oldFiles =>
          /\ ImageDownloaded
          /\ workerPc \in {"save", "set_background", "done", "sysexit", "raised"}
    /\ workerPc \in {"listing", "resolve", "match", "lookup", "composite_open", "image",
                     "composite", "delete"} => (files = oldFiles /\ bgCalls = 0)
    /\ bgCalls <= 1
    /\ bgCalls = 1 => (ImageDownloaded /\ OutputFile \in files)
    /\ (DownloadRaised \/ (workerPc = "sysexit" /\ ~ImageDownloaded)) =>
          (files = oldFiles /\ bgCalls = 0)

C20_Witness ==
    /\ Exited
    /\ workerPc = "done"
    /\ Cardinality(oldFiles) = 2
    /\ files = {OutputFile}
    /\ bgCalls = 1
    /\ args.composite_over = "readable"

====
